---- MODULE Spec2Model ----
(***************************************************************************)
(* Real-time session layer of the board-game backend: the connection       *)
(* registry (app.connection_manager, exercised by                          *)
(* tests/test_connections_manager.py) and the leave / end-turn workflows   *)
(* of app/routers/players.py.                                              *)
(***************************************************************************)
EXTENDS Integers, Sequences, FiniteSets, TLC

(* ----------------------------- scopes ---------------------------------- *)

\* Number of distinct player ids that talk to the registry.
NumPlayers == 3
\* Seats of a match: turn_order is validated to lie in 1..4.
MaxSeats == 4

MatchIds == {1, 2}
PlayerIds == 1..NumPlayers
\* The websockets (transport channels) requests arrive on.
Channels == {"wsA", "wsB"}
NoWs == "none"
\* The (match, player) pairs registry requests are drawn from: every player
\* addresses match 1, and player 1 addresses match 2 as well.
Seats == {<<m, p>> \in MatchIds \X PlayerIds : m = 1 \/ p = 1}

(* ----------------------------- state ----------------------------------- *)

VARIABLES
    games,        \* manager._games: match id -> (player id -> websocket)
    connections,  \* manager._connections: the anonymous websockets
    closed,       \* websockets whose transport is already closed
    players,      \* Players table: player id -> row
    matches,      \* Matches table: match id -> row
    bound,        \* history: players bound and not since unbound, per match
    last,         \* the last request: what was asked and what was answered
    tasks,        \* the requests being served concurrently, each at its place
    origin        \* rows and registry as they were when those requests arrived

vars == <<games, connections, closed, players, matches, bound, last, tasks, origin>>
concurrent == <<tasks, origin>>
registry == <<games, connections>>
store == <<players, matches>>

(* ----------------------------- helpers --------------------------------- *)

\* d[k] = v on a dict
Put(d, k, v) == [x \in (DOMAIN d) \cup {k} |-> IF x = k THEN v ELSE d[x]]
\* del d[k]
Drop(d, k) == [x \in (DOMAIN d) \ {k} |-> d[x]]
\* What a request works on: the rows and the registry's sessions.
World(ps, ms, g) == [players |-> ps, matches |-> ms, games |-> g]

EmptyDict == [x \in {} |-> 0]

Request(op, m, p, ws) ==
    [op |-> op, m |-> m, p |-> p, ws |-> ws, exc |-> "None",
     delivered |-> {}, failures |-> 0, events |-> <<>>]

(* ----------------------- ConnectionRegistry ---------------------------- *)

\* openSession: an empty channel table for the match.
create_game_connection(g, m) ==
    IF m \in DOMAIN g
    THEN [exc |-> "SessionAlreadyOpen", games |-> g]
    ELSE [exc |-> "None", games |-> Put(g, m, EmptyDict)]

\* faulty variant: a second bind replaces the first one
connect_player_to_game_overwrites(g, m, p, ws) ==
    IF m \notin DOMAIN g
    THEN [exc |-> "GameConnectionDoesNotExist", games |-> g]
    ELSE [exc |-> "None", games |-> Put(g, m, Put(g[m], p, ws))]

\* faulty variant: a bind on a match without session opens the session
connect_player_to_game_opens(g, m, p, ws) ==
    IF m \notin DOMAIN g
    THEN [exc |-> "None", games |-> Put(g, m, Put(EmptyDict, p, ws))]
    ELSE IF p \in DOMAIN g[m]
    THEN [exc |-> "PlayerAlreadyConnected", games |-> g]
    ELSE [exc |-> "None", games |-> Put(g, m, Put(g[m], p, ws))]

\* bind
connect_player_to_game(g, m, p, ws) ==
    IF m \notin DOMAIN g
    THEN [exc |-> "GameConnectionDoesNotExist", games |-> g]
    ELSE IF p \in DOMAIN g[m]
    THEN [exc |-> "PlayerAlreadyConnected", games |-> g]
    ELSE [exc |-> "None", games |-> Put(g, m, Put(g[m], p, ws))]

\* faulty variant: unbinding removes every binding of the session
disconnect_player_from_game_clears(g, m, p) ==
    IF m \notin DOMAIN g
    THEN [exc |-> "GameConnectionDoesNotExist", games |-> g]
    ELSE IF p \notin DOMAIN g[m]
    THEN [exc |-> "PlayerNotConnected", games |-> g]
    ELSE [exc |-> "None", games |-> Put(g, m, EmptyDict)]

\* unbind
disconnect_player_from_game(g, m, p) ==
    IF m \notin DOMAIN g
    THEN [exc |-> "GameConnectionDoesNotExist", games |-> g]
    ELSE IF p \notin DOMAIN g[m]
    THEN [exc |-> "PlayerNotConnected", games |-> g]
    ELSE [exc |-> "None", games |-> Put(g, m, Drop(g[m], p))]

\* sendTo: one delivery attempt; a closed transport is a RuntimeError.
send_to_player(g, cl, m, p) ==
    IF m \notin DOMAIN g
    THEN [exc |-> "GameConnectionDoesNotExist", delivered |-> {}, failures |-> 0]
    ELSE IF p \notin DOMAIN g[m]
    THEN [exc |-> "PlayerNotConnected", delivered |-> {}, failures |-> 0]
    ELSE IF g[m][p] \in cl
    THEN [exc |-> "RuntimeError", delivered |-> {}, failures |-> 1]
    ELSE [exc |-> "None", delivered |-> {p}, failures |-> 0]

\* faulty variant: the first closed channel (in player order) ends the broadcast
broadcast_to_game_stops(g, cl, m) ==
    IF m \notin DOMAIN g
    THEN [exc |-> "GameConnectionDoesNotExist", delivered |-> {}, failures |-> 0]
    ELSE LET bad == {p \in DOMAIN g[m] : g[m][p] \in cl}
         IN  IF bad = {}
             THEN [exc |-> "None", delivered |-> DOMAIN g[m], failures |-> 0]
             ELSE LET first == CHOOSE p \in bad : \A q \in bad : p <= q
                  IN  [exc |-> "RuntimeError",
                       delivered |-> {p \in DOMAIN g[m] : p < first},
                       failures |-> 1]

\* broadcast: one independent delivery attempt per binding; the failures are
\* collected and reported once, after every attempt was made.
broadcast_to_game(g, cl, m) ==
    IF m \notin DOMAIN g
    THEN [exc |-> "GameConnectionDoesNotExist", delivered |-> {}, failures |-> 0]
    ELSE LET bad == {p \in DOMAIN g[m] : g[m][p] \in cl}
         IN  [exc |-> IF bad = {} THEN "None" ELSE "RuntimeError",
              delivered |-> (DOMAIN g[m]) \ bad,
              failures |-> Cardinality(bad)]

add_anonymous_connection(conns, ws) == conns \cup {ws}

\* faulty variant: removing a websocket that is not there raises
remove_anonymous_connection_raises(conns, ws) ==
    IF ws \in conns
    THEN [exc |-> "None", connections |-> conns \ {ws}]
    ELSE [exc |-> "ValueError", connections |-> conns]

\* removeAnonymous: a missing websocket is tolerated
remove_anonymous_connection(conns, ws) ==
    [exc |-> "None", connections |-> conns \ {ws}]


\* faulty variant: a refused attempt on a match without session opens the session
create_websocket_connection_opens(g, m, p, ws) ==
    LET r == connect_player_to_game(g, m, p, ws)
    IN  [reply |-> IF r.exc = "None" THEN "accepted" ELSE "Error",
         exc |-> r.exc,
         games |-> IF m \in DOMAIN g THEN r.games ELSE Put(g, m, EmptyDict)]

\* The websocket endpoint of a match: the connection attempt is answered
\* with an Error envelope when the bind is refused.
create_websocket_connection(g, m, p, ws) ==
    LET r == connect_player_to_game(g, m, p, ws)
    IN  [reply |-> IF r.exc = "None" THEN "accepted" ELSE "Error",
         exc |-> r.exc, games |-> r.games]

(* ------------------------- registry actions ---------------------------- *)

Bind(b, m, p) == [b EXCEPT ![m] = @ \cup {p}]
Unbind(b, m, p) == [b EXCEPT ![m] = @ \ {p}]

CreateGameConnection(m) ==
    LET r == create_game_connection(games, m)
    IN  /\ games' = r.games
        /\ last' = [Request("create_game_connection", m, 0, NoWs) EXCEPT !.exc = r.exc]
        /\ UNCHANGED <<connections, closed, store, bound>>

ConnectPlayerToGame(m, p, ws) ==
    LET r == connect_player_to_game(games, m, p, ws)
    IN  /\ games' = r.games
        /\ bound' = IF r.exc = "None" THEN Bind(bound, m, p) ELSE bound
        /\ last' = [Request("connect_player_to_game", m, p, ws) EXCEPT !.exc = r.exc]
        /\ UNCHANGED <<connections, closed, store>>

DisconnectPlayerFromGame(m, p) ==
    LET r == disconnect_player_from_game(games, m, p)
    IN  /\ games' = r.games
        /\ bound' = IF r.exc = "None" THEN Unbind(bound, m, p) ELSE bound
        /\ last' = [Request("disconnect_player_from_game", m, p, NoWs) EXCEPT !.exc = r.exc]
        /\ UNCHANGED <<connections, closed, store>>

SendToPlayer(m, p) ==
    LET r == send_to_player(games, closed, m, p)
    IN  /\ last' = [Request("send_to_player", m, p, NoWs) EXCEPT
                        !.exc = r.exc, !.delivered = r.delivered,
                        !.failures = r.failures]
        /\ UNCHANGED <<registry, closed, store, bound>>

BroadcastToGame(m) ==
    LET r == broadcast_to_game(games, closed, m)
    IN  /\ last' = [Request("broadcast_to_game", m, 0, NoWs) EXCEPT
                        !.exc = r.exc, !.delivered = r.delivered,
                        !.failures = r.failures]
        /\ UNCHANGED <<registry, closed, store, bound>>

AddAnonymousConnection(ws) ==
    /\ connections' = add_anonymous_connection(connections, ws)
    /\ last' = Request("add_anonymous_connection", 0, 0, ws)
    /\ UNCHANGED <<games, closed, store, bound>>

RemoveAnonymousConnection(ws) ==
    LET r == remove_anonymous_connection(connections, ws)
    IN  /\ connections' = r.connections
        /\ last' = [Request("remove_anonymous_connection", 0, 0, ws) EXCEPT
                        !.exc = r.exc,
                        !.events = <<IF ws \in connections THEN "removed" ELSE "absent">>]
        /\ UNCHANGED <<games, closed, store, bound>>

\* A connection attempt arrives on a new websocket: one the registry does
\* not hold yet and whose transport is open.
Fresh(ws) ==
    /\ ws \notin connections
    /\ ws \notin closed
    /\ \A m \in DOMAIN games : \A p \in DOMAIN games[m] : games[m][p] # ws

CreateWebsocketConnection(m, p, ws) ==
    /\ Fresh(ws)
    /\ LET r == create_websocket_connection(games, m, p, ws)
       IN  /\ games' = r.games
           /\ bound' = IF r.exc = "None" THEN Bind(bound, m, p) ELSE bound
           /\ last' = [Request("create_websocket_connection", m, p, ws) EXCEPT
                           !.exc = r.exc,
                           !.events = <<r.reply>>]
           /\ UNCHANGED <<connections, closed, store>>

\* The transport layer closes a websocket; the registry is not told.
CloseTransport(ws) ==
    /\ ws \notin closed
    /\ closed' = closed \cup {ws}
    /\ last' = Request("close", 0, 0, ws)
    /\ UNCHANGED <<registry, store, bound>>

(* ------------------------- registry specification ---------------------- *)

Init ==
    /\ games = EmptyDict
    /\ connections = {}
    /\ closed = {}
    /\ players = EmptyDict
    /\ matches = EmptyDict
    /\ bound = [m \in MatchIds |-> {}]
    /\ last = Request("init", 0, 0, NoWs)
    /\ tasks = <<>>
    /\ origin = World(EmptyDict, EmptyDict, EmptyDict)

Next ==
    \/ \E m \in MatchIds : CreateGameConnection(m)
    \/ \E s \in Seats, ws \in Channels : ConnectPlayerToGame(s[1], s[2], ws)
    \/ \E s \in Seats : DisconnectPlayerFromGame(s[1], s[2])
    \/ \E s \in Seats : SendToPlayer(s[1], s[2])
    \/ \E m \in MatchIds : BroadcastToGame(m)
    \/ \E ws \in Channels : AddAnonymousConnection(ws)
    \/ \E ws \in Channels : RemoveAnonymousConnection(ws)
    \/ \E s \in Seats, ws \in Channels : CreateWebsocketConnection(s[1], s[2], ws)
    \/ \E ws \in Channels : CloseTransport(ws)

Spec == Init /\ [][Next /\ UNCHANGED concurrent]_vars

(* ----------------------- record storage (cruds) ------------------------ *)

\* PlayerService.delete_player
delete_player(ps, id) == Drop(ps, id)
\* PlayerService.get_players_by_match
get_players_by_match(ps, m) == {id \in DOMAIN ps : ps[id].match_id = m}
\* PlayerService.get_player_by_turn
get_player_by_turn(ps, turn, m) ==
    {id \in DOMAIN ps : ps[id].match_id = m /\ ps[id].turn_order = turn}
\* MatchService.update_match
update_match(ms, id, state, n) ==
    [ms EXCEPT ![id].state = state, ![id].current_players = n]
\* MatchService.update_turn
update_turn(ms, id, turn) == [ms EXCEPT ![id].current_player_turn = turn]

Event(key, who, b) ==
    [key |-> key, who |-> who, to |-> b.delivered, exc |-> b.exc, reason |-> "None"]
Issued(key, who) ==
    [key |-> key, who |-> who, to |-> {who}, exc |-> "None", reason |-> "None"]

(* ------------------------ routers/players.py --------------------------- *)

\* faulty variant: the rotation wraps after the fixed last seat
next_turn_fixed_seats(match) ==
    IF match.current_player_turn = MaxSeats THEN 1 ELSE match.current_player_turn + 1

\* end_turn_logic: the turn that follows the current one
next_turn(match) ==
    IF match.current_player_turn = match.current_players
    THEN 1
    ELSE match.current_player_turn + 1

\* faulty variant: the turn check is skipped
not_players_turn_unchecked(player, match) == FALSE

\* end_turn_logic: the request is refused unless the player holds the turn
not_players_turn(player, match) == player.turn_order # match.current_player_turn

\* faulty variant: a session left empty is closed
leave_disconnect_closes(g, m, p) ==
    LET r == disconnect_player_from_game(g, m, p)
    IN  IF r.exc = "None" /\ DOMAIN r.games[m] = {}
        THEN [exc |-> "None", games |-> Drop(g, m)]
        ELSE [exc |-> IF r.exc = "PlayerNotConnected" THEN "None" ELSE r.exc,
              games |-> r.games]

\* leave_player: the unbind, with PlayerNotConnected swallowed
leave_disconnect(g, m, p) ==
    LET r == disconnect_player_from_game(g, m, p)
    IN  [exc |-> IF r.exc = "PlayerNotConnected" THEN "None" ELSE r.exc,
         games |-> r.games]

\* faulty variant: the forfeit test reads the player count before the leave
forfeit_before_leave(match) == match.current_players = 2 /\ match.state = "STARTED"

\* faulty variant: the forfeit test does not look at the state of the match
forfeit_any_state(match) == match.current_players = 1

\* leave_player: the forfeit test, on the match row as update_match left it
forfeit(match) == match.current_players = 1 /\ match.state = "STARTED"

\* playerWinner, for the player w that get_players_by_match lists first
playerWinner(ps, ms, g, cl, m, reason, w) ==
    [players |-> delete_player(ps, w),
     matches |-> update_match(ms, m, "FINISHED", 0),
     events |-> <<[Event("WINNER", w, broadcast_to_game(g, cl, m))
                     EXCEPT !.reason = reason]>>]

\* faulty variant: the owner may leave the lobby
owner_cannot_leave_unchecked(player, match) == FALSE

\* leave_player: the owner stays while the match is in the lobby
owner_cannot_leave(player, match) == match.state = "WAITING" /\ player.is_owner

Answer(op, m, p, detail, events) ==
    [Request(op, m, p, NoWs) EXCEPT !.exc = detail, !.events = events]

\* The websocket bound to player p of match m, if any.
BoundWs(g, m, p) ==
    IF m \in DOMAIN g /\ p \in DOMAIN g[m] THEN g[m][p] ELSE NoWs

\* leave_player up to the await of the PLAYER_LEFT broadcast: the checks,
\* the delete, the unbind, the new player count, and the recipients of the
\* broadcast. go tells whether the handler goes on to the forfeit test.
leave_first(w, cl, player_id, match_id) ==
    LET refuse(detail) == [world |-> w, exc |-> detail, events |-> <<>>,
                           go |-> FALSE, ws |-> NoWs, unbound |-> FALSE]
    IN
    IF player_id \notin DOMAIN w.players THEN refuse("Player not found")
    ELSE IF match_id \notin DOMAIN w.matches THEN refuse("Match not found")
    ELSE IF w.players[player_id].match_id # match_id THEN refuse("Player not in match")
    ELSE IF owner_cannot_leave(w.players[player_id], w.matches[match_id])
    THEN refuse("Owner cannot leave match")
    ELSE
      LET ps1 == delete_player(w.players, player_id)
          d == leave_disconnect(w.games, match_id, player_id)
      IN
      IF d.exc # "None"
      THEN \* GameConnectionDoesNotExist leaves the handler after the delete
           [world |-> [w EXCEPT !.players = ps1], exc |-> "Match not found",
            events |-> <<>>, go |-> FALSE, ws |-> NoWs, unbound |-> FALSE]
      ELSE
        LET ms1 == update_match(w.matches, match_id, w.matches[match_id].state,
                                w.matches[match_id].current_players - 1)
        IN  [world |-> World(ps1, ms1, d.games), exc |-> "None",
             events |-> <<Event("PLAYER_LEFT", player_id,
                                broadcast_to_game(d.games, cl, match_id))>>,
             go |-> TRUE, ws |-> BoundWs(w.games, match_id, player_id),
             unbound |-> TRUE]

\* faulty variant: the forfeit step is reached only when PLAYER_LEFT was
\* delivered to every binding
leave_second_needs_delivery(w, cl, match_id) ==
    IF broadcast_to_game(w.games, cl, match_id).exc = "RuntimeError"
       \/ ~forfeit(w.matches[match_id])
    THEN {[world |-> w, exc |-> "None", events |-> <<>>]}
    ELSE LET rest == get_players_by_match(w.players, match_id)
         IN  IF rest = {}
             THEN {[world |-> w, exc |-> "IndexError", events |-> <<>>]}
             ELSE {LET win == playerWinner(w.players, w.matches, w.games, cl,
                                           match_id, "FORFEIT", x)
                   IN  [world |-> World(win.players, win.matches, w.games),
                        exc |-> "None", events |-> win.events]
                   : x \in rest}

\* leave_player after the PLAYER_LEFT broadcast: the forfeit test on the
\* match row as it is then, and playerWinner. One outcome per player that
\* get_players_by_match may list first.
leave_second(w, cl, match_id) ==
    IF ~forfeit(w.matches[match_id])
    THEN {[world |-> w, exc |-> "None", events |-> <<>>]}
    ELSE LET rest == get_players_by_match(w.players, match_id)
         IN  IF rest = {}
             THEN \* get_players_by_match(match_id)[0] on an empty list
                  {[world |-> w, exc |-> "IndexError", events |-> <<>>]}
             ELSE {LET win == playerWinner(w.players, w.matches, w.games, cl,
                                           match_id, "FORFEIT", x)
                   IN  [world |-> World(win.players, win.matches, w.games),
                        exc |-> "None", events |-> win.events]
                   : x \in rest}

leave_player(player_id, match_id) ==
    LET a == leave_first(World(players, matches, games), closed, player_id, match_id)
    IN
    /\ UNCHANGED <<connections, closed>>
    /\ bound' = IF a.unbound THEN Unbind(bound, match_id, player_id) ELSE bound
    /\ IF ~a.go
       THEN /\ players' = a.world.players
            /\ matches' = a.world.matches
            /\ games' = a.world.games
            /\ last' = Answer("leave_player", match_id, player_id, a.exc, <<>>)
       ELSE \E b \in leave_second(a.world, closed, match_id) :
            /\ players' = b.world.players
            /\ matches' = b.world.matches
            /\ games' = b.world.games
            /\ last' = [Answer("leave_player", match_id, player_id, b.exc,
                               a.events \o b.events)
                          EXCEPT !.ws = a.ws]

\* end_turn_logic: [exc, matches, next_player]
end_turn_logic(ps, ms, player_id, match_id) ==
    IF not_players_turn(ps[player_id], ms[match_id])
    THEN [exc |-> "Not players turn", matches |-> ms, next_player |-> {}]
    ELSE IF ms[match_id].current_player_turn = 0
    THEN \* None + 1
         [exc |-> "TypeError", matches |-> ms, next_player |-> {}]
    ELSE LET ms1 == update_turn(ms, match_id, next_turn(ms[match_id]))
             nxt == get_player_by_turn(ps, ms1[match_id].current_player_turn, match_id)
         IN  [exc |-> IF nxt = {} THEN "NoResultFound" ELSE "None",
              matches |-> ms1, next_player |-> nxt]

\* end_turn up to the await of give_shape_card_to_player: the lookups, the
\* turn update and the two cards.
end_turn_first(w, player_id, match_id) ==
    LET refuse(detail) == [world |-> w, exc |-> detail, events |-> <<>>,
                           next_player |-> {}]
    IN
    IF player_id \notin DOMAIN w.players THEN refuse("Player not found")
    ELSE IF match_id \notin DOMAIN w.matches THEN refuse("Match not found")
    ELSE
      LET r == end_turn_logic(w.players, w.matches, player_id, match_id)
      IN  [world |-> [w EXCEPT !.matches = r.matches], exc |-> r.exc,
           events |-> <<>>, next_player |-> r.next_player]

\* The cards end_turn hands out before its broadcast.
end_turn_cards(player_id, next_player) ==
    <<Issued("MOVEMENT_CARD", player_id), Issued("SHAPE_CARD", next_player)>>

\* end_turn after the card issuance: the END_PLAYER_TURN broadcast, whose
\* exceptions the handler does not catch.
end_turn_second(w, cl, match_id, next_player) ==
    LET b == broadcast_to_game(w.games, cl, match_id)
    IN  [exc |-> b.exc,
         events |-> IF b.exc = "GameConnectionDoesNotExist"
                    THEN <<>>
                    ELSE <<Event("END_PLAYER_TURN", next_player, b)>>]

end_turn(match_id, player_id) ==
    LET a == end_turn_first(World(players, matches, games), player_id, match_id)
    IN
    /\ matches' = a.world.matches
    /\ UNCHANGED <<registry, closed, players, bound>>
    /\ IF a.exc # "None"
       THEN last' = Answer("end_turn", match_id, player_id, a.exc, <<>>)
       ELSE \E next_player \in a.next_player :
              LET b == end_turn_second(a.world, closed, match_id, next_player)
              IN  last' = Answer("end_turn", match_id, player_id, b.exc,
                                 end_turn_cards(player_id, next_player) \o b.events)

(* --------------------------- game specification ------------------------ *)

GamePlayers == 1..MaxSeats
\* A player of another match.
Outsider == MaxSeats + 1
\* The players whose clients open a websocket, and the websocket each uses.
Connecting == GamePlayers \cap PlayerIds
ChannelOf(p) == IF p % 2 = 1 THEN "wsA" ELSE "wsB"

PlayerRow(m, turn, owner) == [match_id |-> m, turn_order |-> turn, is_owner |-> owner]
MatchRow(state, n, turn) ==
    [state |-> state, current_players |-> n, current_player_turn |-> turn]

InitRows(n, started, turn) ==
    /\ players = [id \in (1..n) \cup {Outsider} |->
                    IF id = Outsider THEN PlayerRow(2, 1, TRUE)
                    ELSE PlayerRow(1, IF started THEN id ELSE 0, id = 1)]
    /\ matches = [m \in MatchIds |->
                    IF m = 2 THEN MatchRow("STARTED", 1, 1)
                    ELSE MatchRow(IF started THEN "STARTED" ELSE "WAITING", n, turn)]

\* Match 1 with n players: in the lobby (no turn order dealt yet) or started
\* with seats 1..n and any of them holding the turn. Match 2 is a started
\* match of one other player.
InitGame ==
    /\ games = EmptyDict
    /\ connections = {}
    /\ closed = {}
    /\ bound = [m \in MatchIds |-> {}]
    /\ last = Request("init", 0, 0, NoWs)
    /\ tasks = <<>>
    /\ origin = World(EmptyDict, EmptyDict, EmptyDict)
    /\ \E n \in GamePlayers, started \in BOOLEAN :
         \E turn \in IF started THEN 1..n ELSE {0} : InitRows(n, started, turn)

\* Requests come from the players of match 1, for either match, and the
\* player of match 2 may ask to end the turn of match 1; those who hold a
\* websocket are the first NumPlayers of match 1, and the transport that
\* may fail is the one behind "wsB".
NextGame ==
    \/ CreateGameConnection(1)
    \/ \E p \in Connecting : ConnectPlayerToGame(1, p, ChannelOf(p))
    \/ \E p \in Connecting : DisconnectPlayerFromGame(1, p)
    \/ \E p \in Connecting : SendToPlayer(1, p)
    \/ BroadcastToGame(1)
    \/ CloseTransport("wsB")
    \/ \E p \in GamePlayers, m \in MatchIds : leave_player(p, m)
    \/ \E p \in GamePlayers, m \in MatchIds : end_turn(m, p)
    \/ end_turn(1, Outsider)

SpecGame == InitGame /\ [][NextGame /\ UNCHANGED concurrent]_vars

(* ------------------------ concurrent requests -------------------------- *)

\* A request in flight on match 1: ready (accepted, not yet run), awaiting
\* (suspended at its first await that yields) or done. alone records that its
\* leave left exactly one player in a STARTED match.
Task(op, p) ==
    [op |-> op, p |-> p, pc |-> "ready", exc |-> "None", events |-> <<>>,
     next_player |-> 0, alone |-> FALSE]

Requests == {Task(op, p) : op \in {"leave_player", "end_turn"}, p \in GamePlayers}

Idle == \A i \in DOMAIN tasks : tasks[i].pc = "done"

\* Two requests for match 1 arrive while no other is in flight.
Accept ==
    /\ Idle
    /\ \E t1 \in Requests, t2 \in Requests : tasks' = <<t1, t2>>
    /\ origin' = World(players, matches, games)
    /\ UNCHANGED <<registry, closed, store, bound, last>>

\* The event loop runs task i from its start to its first suspension: for a
\* leave the await of the PLAYER_LEFT broadcast, for an end turn the await of
\* give_shape_card_to_player.
Start(i) ==
    LET t == tasks[i]
        w == World(players, matches, games)
    IN
    /\ t.pc = "ready"
    /\ UNCHANGED <<connections, closed, origin>>
    /\ IF t.op = "leave_player"
       THEN LET a == leave_first(w, closed, t.p, 1) IN
            /\ players' = a.world.players
            /\ matches' = a.world.matches
            /\ games' = a.world.games
            /\ bound' = IF a.unbound THEN Unbind(bound, 1, t.p) ELSE bound
            /\ tasks' = [tasks EXCEPT ![i] =
                  [t EXCEPT !.pc = IF a.go THEN "awaiting" ELSE "done",
                            !.exc = a.exc,
                            !.events = a.events,
                            !.alone = /\ a.go
                                      /\ a.world.matches[1].state = "STARTED"
                                      /\ Cardinality(get_players_by_match(
                                            a.world.players, 1)) = 1]]
            /\ last' = IF a.go THEN last
                       ELSE Answer("leave_player", 1, t.p, a.exc, <<>>)
       ELSE LET a == end_turn_first(w, t.p, 1) IN
            /\ matches' = a.world.matches
            /\ UNCHANGED <<games, players, bound>>
            /\ IF a.exc # "None"
               THEN /\ tasks' = [tasks EXCEPT ![i] =
                                   [t EXCEPT !.pc = "done", !.exc = a.exc]]
                    /\ last' = Answer("end_turn", 1, t.p, a.exc, <<>>)
               ELSE /\ \E n \in a.next_player :
                         tasks' = [tasks EXCEPT ![i] =
                                     [t EXCEPT !.pc = "awaiting",
                                               !.next_player = n,
                                               !.events = end_turn_cards(t.p, n)]]
                    /\ last' = last

\* The event loop resumes task i after its await and runs it to its end.
Resume(i) ==
    LET t == tasks[i]
        w == World(players, matches, games)
    IN
    /\ t.pc = "awaiting"
    /\ UNCHANGED <<connections, closed, origin, bound>>
    /\ IF t.op = "leave_player"
       THEN \E b \in leave_second(w, closed, 1) :
            /\ players' = b.world.players
            /\ matches' = b.world.matches
            /\ games' = b.world.games
            /\ tasks' = [tasks EXCEPT ![i] =
                  [t EXCEPT !.pc = "done", !.exc = b.exc,
                            !.events = t.events \o b.events]]
            /\ last' = Answer("leave_player", 1, t.p, b.exc, t.events \o b.events)
       ELSE LET b == end_turn_second(w, closed, 1, t.next_player) IN
            /\ UNCHANGED <<games, players, matches>>
            /\ tasks' = [tasks EXCEPT ![i] =
                  [t EXCEPT !.pc = "done", !.exc = b.exc,
                            !.events = t.events \o b.events]]
            /\ last' = Answer("end_turn", 1, t.p, b.exc, t.events \o b.events)

\* Match 1 as in InitGame, with its session open and the connecting players
\* bound, each on the websocket of its client; the transport behind "wsB"
\* may have failed.
InitConc ==
    /\ connections = {}
    /\ \E down \in BOOLEAN : closed = IF down THEN {"wsB"} ELSE {}
    /\ last = Request("init", 0, 0, NoWs)
    /\ tasks = <<>>
    /\ origin = World(EmptyDict, EmptyDict, EmptyDict)
    /\ \E n \in GamePlayers, started \in BOOLEAN :
         \E turn \in IF started THEN 1..n ELSE {0} :
           /\ InitRows(n, started, turn)
           /\ games = Put(EmptyDict, 1,
                          [p \in Connecting \cap (1..n) |-> ChannelOf(p)])
           /\ bound = [m \in MatchIds |->
                         IF m = 1 THEN Connecting \cap (1..n) ELSE {}]

NextConc ==
    \/ Accept
    \/ \E i \in DOMAIN tasks : Start(i)
    \/ \E i \in DOMAIN tasks : Resume(i)

SpecConc == InitConc /\ [][NextConc]_vars

\* What serving request t alone, from its start to its end, makes of w.
Served(w, cl, t) ==
    IF t.op = "leave_player"
    THEN LET a == leave_first(w, cl, t.p, 1)
         IN  IF a.go THEN {b.world : b \in leave_second(a.world, cl, 1)}
             ELSE {a.world}
    ELSE {end_turn_first(w, t.p, 1).world}

\* What serving t1 and then t2 makes of w.
Serial(w, cl, t1, t2) == UNION {Served(v, cl, t2) : v \in Served(w, cl, t1)}

(* ============================== claims ================================== *)

ClosedBindings(m) == {p \in DOMAIN games[m] : games[m][p] \in closed}

\* C1: in every session, the player ids currently bound are exactly those
\* successfully bound and not since successfully unbound (a match without
\* session has none); so no unbind removes another player's binding.
C1_BoundSetTracksBinds ==
    \A m \in MatchIds :
        bound[m] = IF m \in DOMAIN games THEN DOMAIN games[m] ELSE {}

\* An unbind of one of three bound players succeeded and the two others
\* are still bound.
C1_Witness ==
    /\ last.op = "disconnect_player_from_game"
    /\ last.exc = "None"
    /\ last.m \in DOMAIN games
    /\ Cardinality(DOMAIN games[last.m]) = 2
    /\ last.p \notin DOMAIN games[last.m]

\* C2: a bind on a match whose session was never opened fails with
\* GameConnectionDoesNotExist and leaves the registry unchanged; a bind of
\* a player not yet bound on an open session succeeds, and the binding
\* (match, player) -> websocket is there for send and broadcast at once.
C2_BindNeedsOpenSession ==
    [][last'.op = "connect_player_to_game" =>
        LET m == last'.m  p == last'.p  ws == last'.ws IN
        /\ m \notin DOMAIN games =>
             /\ last'.exc = "GameConnectionDoesNotExist"
             /\ UNCHANGED registry
        /\ (m \in DOMAIN games /\ p \notin DOMAIN games[m]) =>
             /\ last'.exc = "None"
             /\ m \in DOMAIN games'
             /\ p \in DOMAIN games'[m]
             /\ games'[m][p] = ws
             /\ send_to_player(games', closed', m, p).exc
                    \in {"None", "RuntimeError"}
             /\ p \in broadcast_to_game(games', {}, m).delivered
    ]_vars

\* A bind was refused for want of a session while another match has an
\* open session with a binding.
C2_Witness ==
    /\ last.op = "connect_player_to_game"
    /\ last.exc = "GameConnectionDoesNotExist"
    /\ last.m \notin DOMAIN games
    /\ \E m \in DOMAIN games : DOMAIN games[m] # {}

\* C3: a bind of a player already bound in the session fails with
\* PlayerAlreadyConnected and keeps the original websocket, closed or not;
\* a binding disappears only by an unbind of that very player.
C3_RebindRefused ==
    [][/\ (/\ last'.op = "connect_player_to_game"
           /\ last'.m \in DOMAIN games
           /\ last'.p \in DOMAIN games[last'.m])
          => (last'.exc = "PlayerAlreadyConnected" /\ UNCHANGED registry)
       /\ \A m \in DOMAIN games : \A p \in DOMAIN games[m] :
            (m \notin DOMAIN games' \/ p \notin DOMAIN games'[m])
              => /\ last'.op = "disconnect_player_from_game"
                 /\ last'.m = m
                 /\ last'.p = p
    ]_vars

\* A second bind, with another websocket, was refused although the
\* websocket of the first bind is already closed; the first one is kept.
C3_Witness ==
    /\ last.op = "connect_player_to_game"
    /\ last.exc = "PlayerAlreadyConnected"
    /\ games[last.m][last.p] # last.ws
    /\ games[last.m][last.p] \in closed

\* C4: a websocket appears at most once in the registry: anonymous, or
\* bound to one (match, player) pair.
C4_ChannelAtMostOnce ==
    \A ws \in Channels :
        LET pairs == {s \in MatchIds \X PlayerIds :
                        /\ s[1] \in DOMAIN games
                        /\ s[2] \in DOMAIN games[s[1]]
                        /\ games[s[1]][s[2]] = ws}
        IN  Cardinality(pairs) + (IF ws \in connections THEN 1 ELSE 0) <= 1

\* C5: a broadcast to a session of N bindings of which exactly one has a
\* closed websocket is delivered to the N-1 others, whichever their place
\* in the table, and reports one failure, once.
C5_BroadcastSkipsClosed ==
    (/\ last.op = "broadcast_to_game"
     /\ last.m \in DOMAIN games
     /\ Cardinality(ClosedBindings(last.m)) = 1)
    => /\ last.delivered = (DOMAIN games[last.m]) \ ClosedBindings(last.m)
       /\ last.failures = 1
       /\ last.exc = "RuntimeError"

\* A broadcast to three bindings, the first of them closed, reached the
\* two others.
C5_Witness ==
    /\ last.op = "broadcast_to_game"
    /\ last.m \in DOMAIN games
    /\ Cardinality(DOMAIN games[last.m]) = 3
    /\ ClosedBindings(last.m) = {1}
    /\ last.delivered = {2, 3}
    /\ last.failures = 1

\* C6: removing an anonymous websocket raises nothing, takes exactly that
\* websocket out of the anonymous set and leaves the sessions alone; when
\* the websocket is not there (removed before, or never added), nothing
\* changes.
C6_RemoveAnonymousIdempotent ==
    [][last'.op = "remove_anonymous_connection" =>
        /\ last'.exc = "None"
        /\ connections' = connections \ {last'.ws}
        /\ last'.ws \notin connections => connections' = connections
        /\ UNCHANGED games
    ]_vars

\* A websocket that is not anonymous (any more) was removed again, while
\* another one is anonymous and stays so.
C6_Witness ==
    /\ last.op = "remove_anonymous_connection"
    /\ last.events = <<"absent">>
    /\ last.exc = "None"
    /\ connections # {}
    /\ last.ws \in closed

\* C8: a connection attempt on a match without session, or for a player
\* already bound there, is answered with the Error envelope and leaves the
\* registry as it was.
C8_RefusedAttemptChangesNothing ==
    [][(/\ last'.op = "create_websocket_connection"
        /\ \/ last'.m \notin DOMAIN games
           \/ last'.p \in DOMAIN games[last'.m])
       => /\ last'.events = <<"Error">>
          /\ UNCHANGED registry
    ]_vars

\* An attempt for an already bound player was answered with Error.
C8_Witness ==
    /\ last.op = "create_websocket_connection"
    /\ last.events = <<"Error">>
    /\ last.exc = "PlayerAlreadyConnected"
    /\ games[last.m][last.p] # last.ws

\* C7: a session, once open, stays open whatever is bound, unbound, sent,
\* broadcast or left, also when its last binding goes; an unbind on a match
\* without session fails with GameConnectionDoesNotExist, and an unbind of
\* a player not bound in an open session fails with PlayerNotConnected.
C7_SessionStaysOpen ==
    [][/\ \A m \in DOMAIN games : m \in DOMAIN games'
       /\ last'.op = "disconnect_player_from_game" =>
            LET m == last'.m  p == last'.p IN
            /\ m \notin DOMAIN games =>
                 (last'.exc = "GameConnectionDoesNotExist" /\ UNCHANGED registry)
            /\ (m \in DOMAIN games /\ p \notin DOMAIN games[m]) =>
                 (last'.exc = "PlayerNotConnected" /\ UNCHANGED registry)
    ]_vars

\* The only bound player of a session left the match: the leave unbound
\* the player and the session is open and empty.
C7_Witness ==
    /\ last.op = "leave_player"
    /\ last.exc = "None"
    /\ last.ws # NoWs
    /\ last.m \in DOMAIN games
    /\ DOMAIN games[last.m] = {}

\* C9: an end-turn by the player whose turn_order is the match's current
\* turn, in a match of n = current_players (1..4) with the turn in 1..n,
\* moves the turn to turn + 1 when turn < n and to 1 when turn = n.
C9_EndTurnRotation ==
    [][(/\ last'.op = "end_turn"
        /\ last'.p \in DOMAIN players
        /\ last'.m \in DOMAIN matches
        /\ players[last'.p].turn_order = matches[last'.m].current_player_turn
        /\ matches[last'.m].current_players \in 1..MaxSeats
        /\ matches[last'.m].current_player_turn
               \in 1..matches[last'.m].current_players)
       => LET n == matches[last'.m].current_players
              turn == matches[last'.m].current_player_turn
          IN  matches'[last'.m].current_player_turn
                  = IF turn < n THEN turn + 1 ELSE 1
    ]_vars

\* The player of seat 4 of a match of four ended the turn, which went
\* back to seat 1.
C9_Witness ==
    /\ last.op = "end_turn"
    /\ last.exc = "None"
    /\ last.m = 1
    /\ last.p \in DOMAIN players
    /\ players[last.p].turn_order = MaxSeats
    /\ matches[1].current_players = MaxSeats
    /\ matches[1].current_player_turn = 1

\* C10: an end-turn by a player whose turn_order is not the match's current
\* turn is refused as not the player's turn; the match and player rows
\* stay as they were, no card is issued and nothing is broadcast.
C10_NotPlayersTurn ==
    [][(/\ last'.op = "end_turn"
        /\ last'.p \in DOMAIN players
        /\ last'.m \in DOMAIN matches
        /\ players[last'.p].turn_order # matches[last'.m].current_player_turn)
       => /\ last'.exc = "Not players turn"
          /\ last'.events = <<>>
          /\ last'.delivered = {}
          /\ UNCHANGED <<store, registry>>
    ]_vars

\* A player of a started match asked to end a turn held by someone else.
C10_Witness ==
    /\ last.op = "end_turn"
    /\ last.exc = "Not players turn"
    /\ last.m = 1
    /\ matches[1].state = "STARTED"
    /\ last.p \in DOMAIN players
    /\ players[last.p].match_id = 1
    /\ players[last.p].turn_order # matches[1].current_player_turn

(* ------------------------- leave and end turn --------------------------- *)

\* The notifications of one request that carry the given key.
Notes(events, key) == {i \in DOMAIN events : events[i].key = key}

\* The last request is a leave of player p from match m that was carried out.
Left(l) == l.op = "leave_player" /\ l.exc = "None"

\* C11: a leave carried out on a STARTED match of exactly two players ends
\* with current_players = 0 and state FINISHED, the leaver unbound, and a
\* WINNER broadcast that names the one remaining player with reason FORFEIT.
C11_ForfeitOfTwo ==
    [][(/\ Left(last')
        /\ matches[last'.m].state = "STARTED"
        /\ matches[last'.m].current_players = 2
        /\ Cardinality(get_players_by_match(players, last'.m)) = 2)
       => LET m == last'.m  ev == last'.events IN
          /\ matches'[m].current_players = 0
          /\ matches'[m].state = "FINISHED"
          /\ last'.p \notin DOMAIN games'[m]
          /\ Cardinality(Notes(ev, "WINNER")) = 1
          /\ \A i \in Notes(ev, "WINNER") :
                /\ {ev[i].who} = get_players_by_match(players, m) \ {last'.p}
                /\ ev[i].reason = "FORFEIT"]_vars

\* The leaver had a binding, the winner heard the WINNER notification and
\* both rows of the match are gone.
C11_Witness ==
    /\ Left(last)
    /\ last.ws # NoWs
    /\ matches[last.m].state = "FINISHED"
    /\ matches[last.m].current_players = 0
    /\ get_players_by_match(players, last.m) = {}
    /\ \E i \in Notes(last.events, "WINNER") :
          /\ last.events[i].reason = "FORFEIT"
          /\ last.events[i].who \in last.events[i].to
          /\ last.events[i].who # last.p

\* C12: a leave asked by the owner of a WAITING match is answered "Owner
\* cannot leave match" and changes nothing: rows, player count, state and
\* bindings stay, and no notification is sent.
C12_OwnerStaysInLobby ==
    [][(/\ last'.op = "leave_player"
        /\ last'.p \in DOMAIN players
        /\ last'.m \in DOMAIN matches
        /\ players[last'.p].match_id = last'.m
        /\ players[last'.p].is_owner
        /\ matches[last'.m].state = "WAITING")
       => /\ last'.exc = "Owner cannot leave match"
          /\ last'.events = <<>>
          /\ UNCHANGED <<store, registry, bound>>]_vars

\* The owner of a lobby of several players, bound to the session, was
\* refused.
C12_Witness ==
    /\ last.op = "leave_player"
    /\ last.exc = "Owner cannot leave match"
    /\ matches[last.m].state = "WAITING"
    /\ matches[last.m].current_players > 1
    /\ players[last.p].is_owner
    /\ last.m \in DOMAIN games
    /\ last.p \in DOMAIN games[last.m]

\* The turn orders of the players of match m.
TurnOrders(ps, m) == {ps[q].turn_order : q \in get_players_by_match(ps, m)}

\* C14: when the player holding the turn leaves a STARTED match and at
\* least two players remain, the turn after the leave belongs to a player
\* still in the match.
C14_LeaverPassesTurn ==
    [][(/\ Left(last')
        /\ matches[last'.m].state = "STARTED"
        /\ players[last'.p].turn_order = matches[last'.m].current_player_turn
        /\ matches'[last'.m].current_players >= 2)
       => matches'[last'.m].current_player_turn \in TurnOrders(players', last'.m)]_vars

\* C15: after a leave carried out on a STARTED match, the turn orders of
\* the remaining players are exactly 1..current_players.
C15_SeatsStayPacked ==
    [][(/\ Left(last')
        /\ matches[last'.m].state = "STARTED"
        /\ TurnOrders(players, last'.m) = 1..matches[last'.m].current_players)
       => TurnOrders(players', last'.m) = 1..matches'[last'.m].current_players]_vars

\* C16: within one end turn, the END_PLAYER_TURN broadcast comes before
\* the movement card and the shape card are handed out.
C16_TurnNoticeBeforeCards ==
    [][last'.op = "end_turn" =>
        \A i \in Notes(last'.events, "END_PLAYER_TURN"),
           j \in Notes(last'.events, "MOVEMENT_CARD") \cup Notes(last'.events, "SHAPE_CARD") :
            i < j]_vars

\* The broadcasts of one request that met a closed websocket.
Undelivered(events) == {i \in DOMAIN events : events[i].exc = "RuntimeError"}

\* C18: a request whose PLAYER_LEFT, WINNER or END_PLAYER_TURN broadcast
\* met a closed websocket is still answered as a success, and a leave that
\* fulfils the forfeit condition still declares the winner.
C18_DeliveryFailureTolerated ==
    [][(/\ last'.op \in {"leave_player", "end_turn"}
        /\ Undelivered(last'.events) # {})
       => /\ last'.exc = "None"
          /\ (/\ last'.op = "leave_player"
              /\ matches[last'.m].state = "STARTED"
              /\ matches[last'.m].current_players = 2
              /\ Cardinality(get_players_by_match(players, last'.m)) = 2)
             => /\ Notes(last'.events, "WINNER") # {}
                /\ matches'[last'.m].state = "FINISHED"]_vars

\* C19: a leave or an end turn that names a player of another match is
\* refused and changes nothing: no row, no turn, no player count, no
\* binding, and no notification is sent.
C19_StrangerRefused ==
    [][(/\ last'.op \in {"leave_player", "end_turn"}
        /\ last'.p \in DOMAIN players
        /\ last'.m \in DOMAIN matches
        /\ players[last'.p].match_id # last'.m)
       => /\ last'.exc # "None"
          /\ last'.events = <<>>
          /\ UNCHANGED <<store, registry, bound>>]_vars

(* ------------------- claims on concurrent requests ---------------------- *)

\* The two requests of the episode have both been answered.
Answered == tasks # <<>> /\ Idle

\* The leaves of the episode that were carried out.
Leaves == {i \in DOMAIN tasks : tasks[i].op = "leave_player" /\ tasks[i].events # <<>>}

\* The requests of the episode that broadcast WINNER.
Winners == {i \in DOMAIN tasks : Notes(tasks[i].events, "WINNER") # {}}

\* C13: every leave carried out broadcasts exactly one PLAYER_LEFT, never
\* to the leaver; WINNER is broadcast if and only if some leave left exactly
\* one player in a STARTED match, at most once, and never for a match that
\* was WAITING.
C13_WinnerIffOneRemains ==
    Answered =>
        /\ \A i \in Leaves :
              /\ Cardinality(Notes(tasks[i].events, "PLAYER_LEFT")) = 1
              /\ \A j \in Notes(tasks[i].events, "PLAYER_LEFT") :
                    tasks[i].p \notin tasks[i].events[j].to
        /\ (Winners # {}) <=> (\E i \in Leaves : tasks[i].alone)
        /\ Cardinality(Winners) <= 1
        /\ \A i \in Winners : Cardinality(Notes(tasks[i].events, "WINNER")) = 1
        /\ origin.matches[1].state = "WAITING" => Winners = {}

\* The turn and the player count of match 1 in world w.
TurnAndCount(w) ==
    <<w.matches[1].current_player_turn, w.matches[1].current_players>>

\* C17: once two concurrent requests on one match are answered, the turn
\* and the player count are those that serving the two one after the other,
\* in one of the two orders, would have left.
C17_SerialOutcome ==
    Answered =>
        TurnAndCount(World(players, matches, games)) \in
            {TurnAndCount(v) :
                v \in Serial(origin, closed, tasks[1], tasks[2])
                      \cup Serial(origin, closed, tasks[2], tasks[1])}

\* The moves of a match's state.
Lifecycle == {<<"WAITING", "STARTED">>, <<"STARTED", "FINISHED">>}

\* C20: under any sequence and interleaving of leaves and end turns, the
\* player count of a match stays within 0..MaxSeats, the state of a match
\* only moves along WAITING -> STARTED -> FINISHED, and a leave moves it
\* only from STARTED to FINISHED, by a forfeit.
C20_CountAndLifecycle ==
    /\ [](\A m \in MatchIds : matches[m].current_players \in 0..MaxSeats)
    /\ [][\A m \in MatchIds :
            matches'[m].state # matches[m].state =>
              /\ <<matches[m].state, matches'[m].state>> \in Lifecycle
              /\ last'.op = "leave_player"
              /\ matches[m].state = "STARTED"
              /\ \E i \in Notes(last'.events, "WINNER") :
                    last'.events[i].reason = "FORFEIT"]_vars

\* Two leaves of a started match of three ran interleaved; the count went
\* from 3 to 0 and the state from STARTED to FINISHED by the forfeit.
C20_Witness ==
    /\ Answered
    /\ Leaves = {1, 2}
    /\ tasks[1].p # tasks[2].p
    /\ Winners # {}
    /\ last.op = "leave_player"
    /\ last.p = tasks[CHOOSE i \in Winners : TRUE].p
    /\ origin.matches[1].state = "STARTED"
    /\ origin.matches[1].current_players = 3
    /\ matches[1].state = "FINISHED"
    /\ matches[1].current_players = 0

(* ------------------- state left behind by a leave ----------------------- *)

\* C21: a leave that was carried out leaves the rows and the registry that
\* the same leave leaves when every delivery succeeds: the delete, the
\* unbind and the new player count precede PLAYER_LEFT, which never goes to
\* the leaver, and the forfeit writes precede WINNER.
C21_DeliveryDoesNotDecideState ==
    [][Left(last') =>
        LET m == last'.m
            ev == last'.events
            a == leave_first(World(players, matches, games), {}, last'.p, m)
        IN
        /\ a.go
        /\ World(players', matches', games') \in
              {b.world : b \in leave_second(a.world, {}, m)}
        /\ \A i \in Notes(ev, "PLAYER_LEFT") : last'.p \notin ev[i].to
        /\ \A i \in Notes(ev, "WINNER") :
              /\ matches'[m].state = "FINISHED"
              /\ matches'[m].current_players = 0
              /\ ev[i].who \notin DOMAIN players']_vars

\* A forfeit leave whose PLAYER_LEFT and WINNER both met a closed
\* websocket: the match is FINISHED with no player all the same.
C21_Witness ==
    /\ Left(last)
    /\ Notes(last.events, "PLAYER_LEFT") \subseteq Undelivered(last.events)
    /\ Notes(last.events, "WINNER") # {}
    /\ Notes(last.events, "WINNER") \subseteq Undelivered(last.events)
    /\ matches[last.m].state = "FINISHED"
    /\ matches[last.m].current_players = 0
    /\ get_players_by_match(players, last.m) = {}

\* The number of rows of match m.
Rows(ps, m) == Cardinality(get_players_by_match(ps, m))

\* C22: when no leave is in progress, the current_players of every match
\* is the number of player rows of that match.
C22_CountIsNumberOfRows ==
    \A m \in MatchIds : matches[m].current_players = Rows(players, m)

\* C23: a leave that is answered with an error leaves rows, player counts
\* and bindings as they were and sends no notification.
C23_FailedLeaveChangesNothing ==
    [][(last'.op = "leave_player" /\ last'.exc # "None")
       => /\ UNCHANGED <<store, registry, bound>>
          /\ last'.events = <<>>]_vars

\* The players of match m whose turn order is the turn of the match.
TurnHolders(ps, ms, m) ==
    {q \in get_players_by_match(ps, m) :
        ps[q].turn_order = ms[m].current_player_turn}

\* C24: in a STARTED match with at least one player, exactly one present
\* player holds the turn.
C24_OneTurnHolder ==
    \A m \in MatchIds :
        (matches[m].state = "STARTED" /\ Rows(players, m) >= 1)
        => Cardinality(TurnHolders(players, matches, m)) = 1

\* C25: after a leave carried out on a match whose bindings all belonged
\* to its players, every binding left in the session still belongs to a
\* player of the match.
C25_NoBindingOutlivesItsPlayer ==
    [][(/\ Left(last')
        /\ DOMAIN games[last'.m] \subseteq get_players_by_match(players, last'.m))
       => DOMAIN games'[last'.m] \subseteq get_players_by_match(players', last'.m)]_vars

====
